---- MODULE Spec2Model ----
(***************************************************************************)
(* Model of diffpy.labpdfproc/functions.py: the Gridded_circle sample      *)
(* grid, the beam path lengths through a disk, compute_cve and apply_corr. *)
(*                                                                         *)
(* Real numbers.  Lattice coordinates are exact rationals <<num, den>>.    *)
(* Lengths, slopes, mu and angles of a pattern are fixed-point integers    *)
(* in units of 1/SCALE; normalised polynomial coefficients, roots and      *)
(* attenuations are fixed-point integers in units of 1/FINE.  Every        *)
(* intermediate value stays below 2^31.  Angles passed to the geometry     *)
(* are whole degrees, as in TTH_GRID and in the tests.                     *)
(***************************************************************************)
EXTENDS Integers, Sequences, FiniteSets, TLC

VARIABLES
    gc,            \* the Gridded_circle object (abs_correction inside compute_cve)
    last,          \* the last method call made on gc: [op, angle]
    roots_swapped, \* np.roots returned the two roots in the other order
    tie_ge,        \* outcome of yexit_root2 >= ygrid when root 2 is the grid point itself
    call,          \* arguments of the compute_cve call in progress or last made
    pc,            \* position of compute_cve: "idle", "loop", "done"
    idx,           \* number of TTH_GRID angles the loop of compute_cve has visited
    distances,     \* local list `distances` of compute_cve
    muls,          \* local list `muls` of compute_cve
    result,        \* what the last compute_cve or apply_corr call returned or raised
    modo,          \* the measured pattern object a caller of apply_corr holds
    abdo           \* the correction pattern object a caller of apply_corr holds

vars == <<gc, last, roots_swapped, tie_ge, call, pc, idx, distances, muls, result,
          modo, abdo>>

(***************************************************************************)
(* Bounds of the model                                                     *)
(***************************************************************************)
MaxRadius == 2
MaxPoints == 5

(***************************************************************************)
(* Fixed-point arithmetic                                                  *)
(***************************************************************************)
SCALE == 10 * 10 * 10
FINE == SCALE * SCALE

None == "None"
NoArg == ""

Abs(x) == IF x < 0 THEN -x ELSE x
Max(x, y) == IF x >= y THEN x ELSE y

RECURSIVE ISqrtIter(_, _, _)
ISqrtIter(n, lo, hi) ==
    IF lo >= hi THEN lo
    ELSE LET mid == (lo + hi + 1) \div 2
         IN IF mid * mid <= n THEN ISqrtIter(n, mid, hi)
                              ELSE ISqrtIter(n, lo, mid - 1)

\* floor of the square root of n (0 for n <= 0)
ISqrt(n) == IF n <= 0 THEN 0 ELSE ISqrtIter(n, 0, IF n < 46340 THEN n ELSE 46340)

\* x * y for x, y in 1/SCALE, result in 1/SCALE
Mul(x, y) ==
    LET xq == x \div SCALE
        xr == x % SCALE
        yq == y \div SCALE
        yr == y % SCALE
    IN xq * yq * SCALE + xq * yr + xr * yq + (xr * yr) \div SCALE

\* x / y for x, y in 1/SCALE and y > 0, result in 1/FINE
DivFine(x, y) ==
    LET q0 == x \div y
        big == y >= 2000 * SCALE
        r0 == IF big THEN (x % y) \div 2 ELSE x % y
        yy == IF big THEN y \div 2 ELSE y
        d1 == (r0 * SCALE) \div yy
        r1 == (r0 * SCALE) % yy
        d2 == (r1 * SCALE) \div yy
    IN q0 * FINE + d1 * SCALE + d2

\* x * y for x, y in 1/FINE, result in 1/FINE
MulFine(x, y) ==
    LET x1 == x \div SCALE
        x0 == x % SCALE
        y1 == y \div SCALE
        y0 == y % SCALE
    IN x1 * y1 + (x1 * y0 + x0 * y1) \div SCALE + (x0 * y0) \div FINE

\* square root of v, v and result in 1/FINE
SqrtFine(v) ==
    IF v <= 0 THEN 0
    ELSE IF v < 2000 THEN ISqrt(v * FINE)
    ELSE IF v < 200000 THEN ISqrt(v * 10000) * 10
    ELSE ISqrt(v * 100) * 100

\* a * x for a in 1/SCALE and x in 1/FINE, result in 1/SCALE
MulMix(a, x) ==
    LET x1 == x \div SCALE
        x0 == x % SCALE
    IN (a * x1) \div SCALE + (a * x0) \div FINE

\* the rational <<num, den>> as a fixed-point number in 1/SCALE
ToFix(q) ==
    IF q[1] >= 0 THEN (q[1] * SCALE) \div q[2]
    ELSE -(((-q[1]) * SCALE) \div q[2])

(***************************************************************************)
(* Library functions the code calls                                        *)
(***************************************************************************)
MICRO == FINE   \* an angle in degrees is carried in units of 1/MICRO degree

\* math.tan(math.radians(k)) for k = 1 .. 179 whole degrees, in 1/SCALE
\* (the entry for 90 is never read: the code branches before it)
TanTable ==
   <<
      17, 35, 52, 70, 87, 105, 123, 141, 158, 176,
      194, 213, 231, 249, 268, 287, 306, 325, 344, 364,
      384, 404, 424, 445, 466, 488, 510, 532, 554, 577,
      601, 625, 649, 675, 700, 727, 754, 781, 810, 839,
      869, 900, 933, 966, 1000, 1036, 1072, 1111, 1150, 1192,
      1235, 1280, 1327, 1376, 1428, 1483, 1540, 1600, 1664, 1732,
      1804, 1881, 1963, 2050, 2145, 2246, 2356, 2475, 2605, 2747,
      2904, 3078, 3271, 3487, 3732, 4011, 4331, 4705, 5145, 5671,
      6314, 7115, 8144, 9514, 11430, 14301, 19081, 28636, 57290, 0,
      -57290, -28636, -19081, -14301, -11430, -9514, -8144, -7115, -6314, -5671,
      -5145, -4705, -4331, -4011, -3732, -3487, -3271, -3078, -2904, -2747,
      -2605, -2475, -2356, -2246, -2145, -2050, -1963, -1881, -1804, -1732,
      -1664, -1600, -1540, -1483, -1428, -1376, -1327, -1280, -1235, -1192,
      -1150, -1111, -1072, -1036, -1000, -966, -933, -900, -869, -839,
      -810, -781, -754, -727, -700, -675, -649, -625, -601, -577,
      -554, -532, -510, -488, -466, -445, -424, -404, -384, -364,
      -344, -325, -306, -287, -268, -249, -231, -213, -194, -176,
      -158, -141, -123, -105, -87, -70, -52, -35, -17
   >>

\* math.tan of an angle given in 1/MICRO degree: the table on whole degrees;
\* the only other angle the code produces is 0 + angle_delta, whose tangent
\* (1.7e-8) is below the resolution
math_tan(angle) ==
    IF angle % MICRO = 0 /\ angle \div MICRO \in 1..179
    THEN TanTable[angle \div MICRO]
    ELSE 0

\* math.isclose(math.radians(angle), math.pi / 2, abs_tol = epsilon):
\* epsilon = 1e-7 rad is 5.7e-6 degree
isclose_right_angle(angle) == Abs(angle - 90 * MICRO) <= 5

\* math.dist(p, q), p and q in 1/SCALE
math_dist(p, q) ==
    ISqrt((p[1] - q[1]) * (p[1] - q[1]) + (p[2] - q[2]) * (p[2] - q[2]))

\* math.sqrt(radius ** 2 - v ** 2), radius and v in 1/SCALE
math_sqrt_diff(rf, v) == ISqrt(rf * rf - v * v)

\* a linspace that leaves the stop value out (endpoint=False)
np_linspace_without_endpoint(start, stop, num) ==
    [i \in 1..num |-> <<start * num + (i - 1) * (stop - start), num>>]

\* np.linspace(start, stop, num) for integers start, stop: num evenly spaced
\* rationals <<numerator, denominator>>, both ends included; one sample is start
np_linspace(start, stop, num) ==
    IF num = 1 THEN << <<start, 1>> >>
    ELSE [i \in 1..num |-> <<start * (num - 1) + (i - 1) * (stop - start), num - 1>>]

\* the two roots of x^2 + p x + q, p and q in 1/FINE, in the order numpy
\* happens to return them
monic_roots(p, sq) ==
    IF roots_swapped THEN <<(-p) \div 2 - sq, (-p) \div 2 + sq>>
                     ELSE <<(-p) \div 2 + sq, (-p) \div 2 - sq>>

\* np.roots((p0, p1, p2)), coefficients in 1/SCALE, p0 > 0: the eigenvalues of
\* the companion matrix of the monic polynomial x^2 + (p1/p0) x + (p2/p0), in
\* 1/FINE.  numpy does not say in which order the two roots come.
np_roots(p0, p1, p2) ==
    monic_roots(DivFine(p1, p0),
                SqrtFine(MulFine(DivFine(p1, p0), DivFine(p1, p0)) \div 4
                         - DivFine(p2, p0)))

RECURSIVE ExpSeries(_, _, _, _)
\* sum of (-x)^j / j! for j >= k - 1, given term = x^(k-1) / (k-1)! (1/FINE)
ExpSeries(x, k, term, sign) ==
    IF term = 0 THEN 0
    ELSE sign * term + ExpSeries(x, k + 1, (term * x) \div (SCALE * k), -sign)

RECURSIVE ExpNeg(_)
\* exp(-x) for x >= 0 in 1/SCALE, result in 1/FINE
ExpNeg(x) ==
    IF x <= SCALE THEN ExpSeries(x, 1, FINE, 1)
    ELSE LET h == ExpNeg(x \div 2)
             sq == MulFine(h, h)
         IN IF x % 2 = 1 THEN MulFine(sq, 999000) ELSE sq

\* np.exp(x) for x <= 0 in 1/SCALE, result in 1/FINE
np_exp(x) == ExpNeg(-x)

(***************************************************************************)
(* Gridded_circle                                                          *)
(***************************************************************************)
\* the open disk: x ** 2 + y ** 2 < self.radius ** 2
InCircle_open(x, y, radius) ==
    x[1] * x[1] * y[2] * y[2] + y[1] * y[1] * x[2] * x[2]
        < radius * radius * x[2] * x[2] * y[2] * y[2]

\* x ** 2 + y ** 2 <= self.radius ** 2 on the exact lattice coordinates
InCircle(x, y, radius) ==
    x[1] * x[1] * y[2] * y[2] + y[1] * y[1] * x[2] * x[2]
        <= radius * radius * x[2] * x[2] * y[2] * y[2]

\* get_grid_points: [(x, y) for x in xs for y in ys if x**2 + y**2 <= radius**2]
get_grid_points(radius, npoints) ==
    LET xs == np_linspace(-radius, radius, npoints)
        ys == np_linspace(-radius, radius, npoints)
        product == [p \in 1..(npoints * npoints) |->
                       <<xs[((p - 1) \div npoints) + 1], ys[((p - 1) % npoints) + 1]>>]
    IN SelectSeq(product, LAMBDA c : InCircle(c[1], c[2], radius))

\* the grid point lies exactly on the boundary circle
OnCircle(coordinate, radius) ==
    LET x == coordinate[1]
        y == coordinate[2]
    IN x[1] * x[1] * y[2] * y[2] + y[1] * y[1] * x[2] * x[2]
           = radius * radius * x[2] * x[2] * y[2] * y[2]

\* lines 145-150: the exit point picked among the two roots (in 1/FINE).  When
\* the grid point is on the circle it is itself one of the two roots, and
\* rounding decides yexit_root >= ygrid for it.
pick_exit_point(coordinate, radius, xgrid, ygrid, a, b, roots) ==
    LET yexit_root1 == MulMix(a, roots[1]) + b
        yexit_root2 == MulMix(a, roots[2]) + b
        root2_is_point ==
            /\ OnCircle(coordinate, radius)
            /\ Abs(roots[2] - xgrid * SCALE) <= Abs(roots[1] - xgrid * SCALE)
    IN IF (IF root2_is_point THEN tie_ge ELSE yexit_root2 >= ygrid)
       THEN <<(roots[2] + SCALE \div 2) \div SCALE, yexit_root2>>
       ELSE <<(roots[1] + SCALE \div 2) \div SCALE, yexit_root1>>

\* lines 142-144: the line y = a x + b through the grid point meets the circle
exit_on_line(coordinate, radius, xgrid, ygrid, a, b) ==
    pick_exit_point(coordinate, radius, xgrid, ygrid, a, b,
                    np_roots(SCALE + Mul(a, a), 2 * Mul(a, b),
                             Mul(b, b) - Mul(radius * SCALE, radius * SCALE)))

\* lines 139-152 on the fixed-point grid point (xgrid, ygrid)
entry_exit_of(coordinate, angle, radius, xgrid, ygrid) ==
    <<  <<-math_sqrt_diff(radius * SCALE, ygrid), ygrid>>,
        IF ~isclose_right_angle(angle)
        THEN exit_on_line(coordinate, radius, xgrid, ygrid, math_tan(angle),
                          ygrid - Mul(xgrid, math_tan(angle)))
        ELSE <<xgrid, math_sqrt_diff(radius * SCALE, xgrid)>>  >>

\* get_entry_exit_coordinates(coordinate, angle, radius): <<entry, exit>> in
\* 1/SCALE; angle in 1/MICRO degree
get_entry_exit_coordinates(coordinate, angle, radius) ==
    entry_exit_of(coordinate, angle, radius, ToFix(coordinate[1]), ToFix(coordinate[2]))

\* a total that leaves the secondary distance out
path_lengths_without_secondary(point, entry_exit) ==
    <<math_dist(point, entry_exit[1]),
      math_dist(point, entry_exit[1]),
      math_dist(point, entry_exit[2])>>

\* lines 182-185: <<total, primary, secondary>> from the entry and exit points
path_lengths(point, entry_exit) ==
    LET primary_distance == math_dist(point, entry_exit[1])
        secondary_distance == math_dist(point, entry_exit[2])
    IN <<primary_distance + secondary_distance, primary_distance, secondary_distance>>

\* get_path_length(grid_point, angle, radius): <<total, primary, secondary>>;
\* angle in whole degrees, moved by angle_delta = 0.000001 when it is 0
get_path_length(grid_point, angle, radius) ==
    path_lengths(<<ToFix(grid_point[1]), ToFix(grid_point[2])>>,
                 get_entry_exit_coordinates(
                     grid_point,
                     IF angle = 0 THEN angle * MICRO + 1 ELSE angle * MICRO,
                     radius))

\* Gridded_circle.__init__ once get_grid_points has run; primary_distances and
\* secondary_distances do not exist before the first set_distances_at_angle
\* and are shown empty
new_circle(radius, n_points_on_diameter, mu, grid) ==
    [radius |-> radius,
     npoints |-> n_points_on_diameter,
     mu |-> mu,
     distances |-> <<>>,
     primary_distances |-> <<>>,
     secondary_distances |-> <<>>,
     muls |-> <<>>,
     grid |-> grid,
     total_points_in_grid |-> Len(grid)]

\* Gridded_circle(radius, n_points_on_diameter, mu)
Gridded_circle(radius, n_points_on_diameter, mu) ==
    new_circle(radius, n_points_on_diameter, mu,
               get_grid_points(radius, n_points_on_diameter))

\* the lists of the earlier call kept, the new entries added after them
store_distances_accumulating(self, lengths) ==
    [self EXCEPT !.distances = @ \o [i \in 1..Len(lengths) |-> lengths[i][1]],
                 !.primary_distances = @ \o [i \in 1..Len(lengths) |-> lengths[i][2]],
                 !.secondary_distances = @ \o [i \in 1..Len(lengths) |-> lengths[i][3]]]

\* lines 67-72: the three lists, one entry per grid point, in grid order
store_distances(self, lengths) ==
    [self EXCEPT !.distances = [i \in 1..Len(lengths) |-> lengths[i][1]],
                 !.primary_distances = [i \in 1..Len(lengths) |-> lengths[i][2]],
                 !.secondary_distances = [i \in 1..Len(lengths) |-> lengths[i][3]]]

\* the loop over the grid taking its points off the grid
set_distances_at_angle_consuming_grid(self, angle) ==
    [store_distances(self, <<>> \o [i \in 1..Len(self.grid) |->
                                       get_path_length(self.grid[i], angle, self.radius)])
        EXCEPT !.grid = <<>>, !.total_points_in_grid = 0]

\* Gridded_circle.set_distances_at_angle: the lists start empty and get one
\* entry per grid point, appended in grid order
set_distances_at_angle(self, angle) ==
    store_distances(self, <<>> \o [i \in 1..Len(self.grid) |->
                                      get_path_length(self.grid[i], angle, self.radius)])

\* muls = exp(-distance), mu left out
store_muls_without_mu(self) ==
    [self EXCEPT !.muls = <<>> \o [i \in 1..Len(self.distances) |->
                                      np_exp(-self.distances[i])]]

\* lines 93-94: muls from the distances the object holds
store_muls(self) ==
    [self EXCEPT !.muls = <<>> \o [i \in 1..Len(self.distances) |->
                                      np_exp(-Mul(self.mu, self.distances[i]))]]

\* Gridded_circle.set_muls_at_angle
set_muls_at_angle(self, angle) ==
    store_muls(IF Len(self.distances) = 0
               THEN set_distances_at_angle([self EXCEPT !.muls = <<>>], angle)
               ELSE [self EXCEPT !.muls = <<>>])

(***************************************************************************)
(* A caller working on one Gridded_circle                                  *)
(***************************************************************************)
Radii == 1..MaxRadius
PointCounts == 1..MaxPoints
MuValues == {SCALE \div 2, SCALE, 2 * SCALE}
Angles == {45, 90, 120}

Idle ==
    /\ call = [kind |-> None]
    /\ pc = "idle"
    /\ idx = 0
    /\ distances = <<>>
    /\ muls = <<>>
    /\ result = [kind |-> None]

\* the caller holds no pattern objects
NoPatterns ==
    /\ modo = [kind |-> None]
    /\ abdo = [kind |-> None]

\* no Gridded_circle exists yet
NoObject == [grid |-> <<>>]

Constructed == last.op # None

Init ==
    /\ gc = NoObject
    /\ last = [op |-> None, angle |-> None]
    /\ roots_swapped \in BOOLEAN
    /\ tie_ge \in BOOLEAN
    /\ Idle
    /\ NoPatterns

Construct(radius, n_points_on_diameter, mu) ==
    /\ ~Constructed
    /\ gc' = Gridded_circle(radius, n_points_on_diameter, mu)
    /\ last' = [op |-> "__init__", angle |-> None]
    /\ UNCHANGED <<roots_swapped, tie_ge, call, pc, idx, distances, muls, result, modo, abdo>>

SetDistancesAtAngle(angle) ==
    /\ Constructed
    /\ gc' = set_distances_at_angle(gc, angle)
    /\ last' = [op |-> "set_distances_at_angle", angle |-> angle]
    /\ UNCHANGED <<roots_swapped, tie_ge, call, pc, idx, distances, muls, result, modo, abdo>>

SetMulsAtAngle(angle) ==
    /\ Constructed
    /\ gc' = set_muls_at_angle(gc, angle)
    /\ last' = [op |-> "set_muls_at_angle", angle |-> angle]
    /\ UNCHANGED <<roots_swapped, tie_ge, call, pc, idx, distances, muls, result, modo, abdo>>

Next ==
    \/ \E radius \in Radii, n \in PointCounts, mu \in MuValues : Construct(radius, n, mu)
    \/ \E angle \in Angles : SetDistancesAtAngle(angle)
    \/ \E angle \in Angles : SetMulsAtAngle(angle)

Spec == Init /\ [][Next]_vars

(***************************************************************************)
(* compute_cve                                                             *)
(***************************************************************************)
RADIUS_MM == 1
\* 249 in the source; the model samples the disk with a coarser lattice
N_POINTS_ON_DIAMETER == 3
\* np.arange(1, 141, 1)
TTH_GRID == [i \in 1..(141 - 1) |-> i]

\* the supported method names the tests import from functions
CVE_METHODS == {"brute_force", "polynomial_interpolation"}

RECURSIVE SumSeq(_)
\* sum(list)
SumSeq(s) == IF s = <<>> THEN 0 ELSE Head(s) + SumSeq(Tail(s))

\* the curve left on the internal grid xp, not resampled at x
np_interp_not_resampled(x, xp, fp) == fp

\* a step function: the value of the node before x
np_interp_previous_node(x, xp, fp) ==
    [i \in 1..Len(x) |->
        IF x[i] <= xp[1] THEN fp[1]
        ELSE IF x[i] > xp[Len(xp)] THEN fp[Len(fp)]
        ELSE fp[CHOOSE k \in 1..(Len(xp) - 1) : xp[k] < x[i] /\ x[i] <= xp[k + 1]]]

\* np.interp(x, xp, fp): piecewise-linear interpolation of the points (xp, fp)
\* at every element of x, held constant outside [xp[1], xp[Len(xp)]];
\* x and xp in 1/SCALE
np_interp(x, xp, fp) ==
    [i \in 1..Len(x) |->
        IF x[i] <= xp[1] THEN fp[1]
        ELSE IF x[i] >= xp[Len(xp)] THEN fp[Len(fp)]
        ELSE LET j == CHOOSE k \in 1..(Len(xp) - 1) : xp[k] <= x[i] /\ x[i] < xp[k + 1]
                 frac == ((x[i] - xp[j]) * SCALE) \div (xp[j + 1] - xp[j])
             IN fp[j] + Mul(fp[j + 1] - fp[j], frac)]

\* 1 / muls for muls in 1/FINE, result in 1/SCALE (numpy gives inf for 0)
Reciprocal(m) == IF m = 0 THEN 2147483647 ELSE (FINE * SCALE) \div m

\* def compute_cve(diffraction_data, mud, wavelength): the call binds when
\* exactly these three parameters are given (args.given lists the arguments
\* the caller passed); any other call raises TypeError before the body runs
Binds(args) == args.given = <<"diffraction_data", "mud", "wavelength">>

\* mu_sample_invmm = mud / 2, mud in 1/MICRO, result in 1/SCALE
mu_sample_invmm(mud) == mud \div (2 * (MICRO \div SCALE))

\* abdo = Diffraction_object(wavelength=wavelength);
\* abdo.insert_scattering_quantity(orig_grid, newcve, "tth"):
\* name, scat_quantity and metadata keep the defaults of Diffraction_object
Diffraction_object(wavelength, xarray, yarray, xtype) ==
    [kind |-> "Diffraction_object",
     name |-> "",
     wavelength |-> wavelength,
     scat_quantity |-> "",
     metadata |-> {},
     input_xtype |-> xtype,
     on_tth |-> <<xarray, yarray>>]

\* the measured patterns handed to compute_cve (angles and intensities in 1/SCALE)
Patterns ==
    { [name |-> "test", wavelength |-> 1540, scat_quantity |-> "x-ray",
       metadata |-> {<<"thing1", "1">>, <<"thing2", "thing2">>},
       on_tth |-> << <<90000, 90100, 90200>>, <<2000, 2000, 2000>> >>],
      [name |-> "wide", wavelength |-> 711, scat_quantity |-> "x-ray",
       metadata |-> {<<"source", "Mo">>},
       on_tth |-> << <<500, 45000, 139500, 150000>>, <<1000, 3000, 2000, 500>> >>] }

\* a measured pattern whose two-theta grid is TTH_GRID itself
InternalGridPattern ==
    [name |-> "grid", wavelength |-> 1540, scat_quantity |-> "x-ray",
     metadata |-> {},
     on_tth |-> << [i \in 1..Len(TTH_GRID) |-> TTH_GRID[i] * SCALE],
                   [i \in 1..Len(TTH_GRID) |-> SCALE] >>]

CvePatterns == Patterns \cup {InternalGridPattern}

\* mud in 1/MICRO: 0.499999, 0.5, 1, 7, 7.000001, 10
MudValues == {499999, 500000, 1000000, 7000000, 7000001, 10000000}
\* the mud of the calls that run the computation: 1 and 10
ComputedMudValues == {1000000, 10000000}
Wavelengths == {1540, 711}
Methods == CVE_METHODS \cup {"invalid_method"}
XTypes == {"tth", "q", "d"}

\* a call that keeps the Gridded_circle an earlier call built
ComputeCveCall_reusing_circle(given, diffraction_data, mud, wavelength, method, xtype) ==
    LET args == [kind |-> "compute_cve", given |-> given,
                 diffraction_data |-> diffraction_data,
                 mud |-> mud, wavelength |-> wavelength,
                 method |-> method, xtype |-> xtype]
    IN /\ (pc = "idle" \/ pc = "done")
       /\ call' = args
       /\ IF Binds(args)
          THEN /\ pc' = "loop"
               /\ gc' = IF Constructed THEN gc
                         ELSE Gridded_circle(RADIUS_MM, N_POINTS_ON_DIAMETER,
                                             mu_sample_invmm(mud))
               /\ last' = [op |-> "__init__", angle |-> None]
               /\ idx' = 0
               /\ distances' = <<>>
               /\ muls' = <<>>
               /\ result' = [kind |-> None]
          ELSE /\ pc' = "done"
               /\ result' = [kind |-> "TypeError"]
               /\ UNCHANGED <<gc, last, idx, distances, muls>>
       /\ UNCHANGED <<roots_swapped, tie_ge, modo, abdo>>

\* the call and lines 216-218: bind the arguments, build the grid, empty lists
ComputeCveCall(given, diffraction_data, mud, wavelength, method, xtype) ==
    LET args == [kind |-> "compute_cve", given |-> given,
                 diffraction_data |-> diffraction_data,
                 mud |-> mud, wavelength |-> wavelength,
                 method |-> method, xtype |-> xtype]
    IN /\ (pc = "idle" \/ pc = "done")
       /\ call' = args
       /\ IF Binds(args)
          THEN /\ pc' = "loop"
               /\ gc' = Gridded_circle(RADIUS_MM, N_POINTS_ON_DIAMETER,
                                       mu_sample_invmm(mud))
               /\ last' = [op |-> "__init__", angle |-> None]
               /\ idx' = 0
               /\ distances' = <<>>
               /\ muls' = <<>>
               /\ result' = [kind |-> None]
          ELSE /\ pc' = "done"
               /\ result' = [kind |-> "TypeError"]
               /\ UNCHANGED <<gc, last, idx, distances, muls>>
       /\ UNCHANGED <<roots_swapped, tie_ge, modo, abdo>>

\* the attenuations asked for without the distances of the angle
angle_sample_muls_only(abs_correction, angle) ==
    set_muls_at_angle(abs_correction, angle)

\* lines 220-221: abs_correction.set_distances_at_angle(angle);
\* abs_correction.set_muls_at_angle(angle)
angle_sample(abs_correction, angle) ==
    set_muls_at_angle(set_distances_at_angle(abs_correction, angle), angle)

\* lines 222-223, abs_correction being the object after lines 220-221
LoopBody(angle, abs_correction) ==
    /\ gc' = abs_correction
    /\ last' = [op |-> "set_muls_at_angle", angle |-> angle]
    /\ distances' = Append(distances, SumSeq(abs_correction.distances))
    /\ muls' = Append(muls, SumSeq(abs_correction.muls))

\* one pass of `for angle in TTH_GRID` (lines 219-223)
ComputeCveLoop ==
    /\ pc = "loop"
    /\ idx < Len(TTH_GRID)
    /\ LoopBody(TTH_GRID[idx + 1], angle_sample(gc, TTH_GRID[idx + 1]))
    /\ idx' = idx + 1
    /\ UNCHANGED <<roots_swapped, tie_ge, call, pc, result, modo, abdo>>

\* lines 224-233: average, invert, interpolate, build the returned object
ComputeCveReturn ==
    /\ pc = "loop"
    /\ idx = Len(TTH_GRID)
    /\ LET mean_distances == [i \in 1..Len(distances) |->
                                 distances[i] \div gc.total_points_in_grid]
           mean_muls == [i \in 1..Len(muls) |-> muls[i] \div gc.total_points_in_grid]
           cve == [i \in 1..Len(mean_muls) |-> Reciprocal(mean_muls[i])]
           orig_grid == call.diffraction_data.on_tth[1]
           newcve == np_interp(orig_grid, [i \in 1..Len(TTH_GRID) |-> TTH_GRID[i] * SCALE], cve)
       IN /\ distances' = mean_distances
          /\ muls' = mean_muls
          /\ result' = Diffraction_object(call.wavelength, orig_grid, newcve, "tth")
    /\ pc' = "done"
    /\ UNCHANGED <<gc, last, roots_swapped, tie_ge, call, idx, modo, abdo>>

\* compute_cve(diffraction_data, mud, wavelength), as the signature asks, and
\* compute_cve(diffraction_data, mud=, method=[, xtype=]), as the tests call it
NextCve ==
    \/ \E diffraction_data \in CvePatterns, mud \in ComputedMudValues,
          wavelength \in Wavelengths :
          ComputeCveCall(<<"diffraction_data", "mud", "wavelength">>,
                         diffraction_data, mud, wavelength, NoArg, NoArg)
    \/ \E diffraction_data \in CvePatterns, mud \in MudValues, method \in Methods :
          ComputeCveCall(<<"diffraction_data", "mud", "method">>,
                         diffraction_data, mud, 0, method, NoArg)
    \/ \E diffraction_data \in CvePatterns, mud \in MudValues,
          method \in Methods, xtype \in XTypes :
          ComputeCveCall(<<"diffraction_data", "mud", "method", "xtype">>,
                         diffraction_data, mud, 0, method, xtype)
    \/ ComputeCveLoop
    \/ ComputeCveReturn

SpecCve == Init /\ [][NextCve]_vars

(***************************************************************************)
(* apply_corr                                                              *)
(***************************************************************************)
\* Diffraction_object.__mul__(self, other) of diffpy.utils, for two patterns on
\* the same grid: a copy of self whose intensities are multiplied, position by
\* position, by the intensities of other.  The record gives the three objects
\* after the call.
Diffraction_object_mul(self, other) ==
    [multiplied |-> [self EXCEPT !.on_tth =
                        <<self.on_tth[1],
                          [i \in 1..Len(self.on_tth[2]) |->
                              Mul(self.on_tth[2][i], other.on_tth[2][i])]>>],
     self |-> self,
     other |-> other]

\* the product taken with the operands the other way round
apply_corr_operands_swapped(modo_arg, abdo_arg) ==
    LET product == Diffraction_object_mul(abdo_arg, modo_arg)
    IN [abscormodo |-> product.multiplied, modo |-> product.other, abdo |-> product.self]

\* apply_corr(modo, abdo): abscormodo = modo * abdo; return abscormodo
\* (the prints read the three objects and change nothing)
apply_corr(modo_arg, abdo_arg) ==
    LET product == Diffraction_object_mul(modo_arg, abdo_arg)
    IN [abscormodo |-> product.multiplied, modo |-> product.self, abdo |-> product.other]

\* a measured pattern as a pattern object
MeasuredObject(pattern, yarray) ==
    [kind |-> "Diffraction_object",
     name |-> pattern.name,
     wavelength |-> pattern.wavelength,
     scat_quantity |-> pattern.scat_quantity,
     metadata |-> pattern.metadata,
     input_xtype |-> "tth",
     on_tth |-> <<pattern.on_tth[1], yarray>>]

\* intensities and correction values of the patterns handed to apply_corr (1/SCALE)
Intensities == {0, 2000, 3500}
CveValues == {500, 1000, 1234}

ArraysOver(values, n) == [1..n -> values]

\* the caller holds a measured pattern and a correction curve on the same grid
InitCorr ==
    /\ gc = NoObject
    /\ last = [op |-> None, angle |-> None]
    /\ roots_swapped = FALSE
    /\ tie_ge = FALSE
    /\ Idle
    /\ \E pattern \in Patterns :
          /\ modo \in {MeasuredObject(pattern, y) :
                           y \in ArraysOver(Intensities, Len(pattern.on_tth[1]))}
          /\ abdo \in {Diffraction_object(pattern.wavelength, pattern.on_tth[1], y, "tth") :
                           y \in ArraysOver(CveValues, Len(pattern.on_tth[1]))}

\* the caller runs apply_corr(modo, abdo) on the two objects it holds
ApplyCorr ==
    /\ pc = "idle"
    /\ call' = [kind |-> "apply_corr", modo |-> modo, abdo |-> abdo]
    /\ result' = apply_corr(modo, abdo).abscormodo
    /\ modo' = apply_corr(modo, abdo).modo
    /\ abdo' = apply_corr(modo, abdo).abdo
    /\ pc' = "done"
    /\ UNCHANGED <<gc, last, roots_swapped, tie_ge, idx, distances, muls>>

\* the caller corrects the corrected pattern once more with the same curve
CorrectAgain ==
    /\ pc = "done"
    /\ call.kind = "apply_corr"
    /\ \A i \in 1..Len(result.on_tth[2]) : result.on_tth[2][i] <= 4 * SCALE
    /\ modo' = result
    /\ pc' = "idle"
    /\ UNCHANGED <<gc, last, roots_swapped, tie_ge, call, idx, distances, muls, result, abdo>>

NextCorr ==
    \/ ApplyCorr
    \/ CorrectAgain

SpecCorr == InitCorr /\ [][NextCorr]_vars

(***************************************************************************)
(* Claims about compute_cve, checked under SpecCve                         *)
(***************************************************************************)
Returned == pc = "done" /\ result.kind = "Diffraction_object"

\* the caller passed the argument of that name
Given(name) == \E i \in 1..Len(call.given) : call.given[i] = name

UnknownMethodError(method) ==
    [kind |-> "ValueError",
     message |-> <<"Unknown method: ", method, ". Allowed methods are ", CVE_METHODS, ".">>]

\* C1: a call whose method is not in CVE_METHODS fails, for every mud, with the
\* ValueError "Unknown method: <value>. Allowed methods are (...)."
C1_UnknownMethodIsValueError ==
    (pc = "done" /\ Given("method") /\ call.method \notin CVE_METHODS)
        => result = UnknownMethodError(call.method)

OutOfRangeError(mud) ==
    [kind |-> "ValueError",
     message |-> <<"mu*D = ", mud, " is out of the acceptable range (0.5 to 7) ",
                   "for polynomial interpolation. Please rerun with a value within ",
                   "this range or specifying another method from ", CVE_METHODS, ".">>]

\* C2: with method polynomial_interpolation the call returns a curve exactly
\* when 0.5 <= mud <= 7, and otherwise fails with the ValueError that states the
\* rejected value, the range 0.5 to 7 and the other methods
C2_ApproximateMethodRange ==
    (pc = "done" /\ Given("method") /\ call.method = "polynomial_interpolation")
        => IF MICRO \div 2 <= call.mud /\ call.mud <= 7 * MICRO
           THEN result.kind = "Diffraction_object"
           ELSE result = OutOfRangeError(call.mud)

\* C3: the returned curve has exactly the x values of the measured pattern, in
\* the same order, and one correction value per measured point
C3_CurveOnMeasuredGrid ==
    Returned => /\ result.on_tth[1] = call.diffraction_data.on_tth[1]
                /\ Len(result.on_tth[2]) = Len(call.diffraction_data.on_tth[1])

C3_Witness ==
    /\ Returned
    /\ Len(call.diffraction_data.on_tth[1]) = 4
    /\ Len(result.on_tth[2]) = 4
    /\ result.on_tth[2][2] > result.on_tth[2][1]

\* C4: the returned object carries scat_quantity "cve", the name
\* "absorption correction, cve, for <input name>", the wavelength of the input
\* pattern and a metadata mapping equal to the input pattern's
C4_LabelsOfTheCurve ==
    Returned => /\ result.scat_quantity = "cve"
                /\ result.name = "absorption correction, cve, for "
                                     \o call.diffraction_data.name
                /\ result.wavelength = call.diffraction_data.wavelength
                /\ result.metadata = call.diffraction_data.metadata

\* the x axis of pattern x-values tth in another unit system; the conversion
\* belongs to the pattern class and is kept symbolic
converted_axis(tth, xtype, wavelength) == <<xtype, wavelength, tth>>

x_axis_of(object) ==
    IF object.input_xtype = "tth" THEN object.on_tth[1]
    ELSE converted_axis(object.on_tth[1], object.input_xtype, object.wavelength)

\* C5: a call with target x-type "tth" returns the input two-theta array
\* unchanged as x axis; a call with "q" or "d" returns the input grid converted
\* to that unit system with the pattern's wavelength, tagged with that x-type
C5_TargetXType ==
    (pc = "done" /\ Given("xtype"))
        => /\ result.kind = "Diffraction_object"
           /\ result.input_xtype = call.xtype
           /\ x_axis_of(result) =
                 IF call.xtype = "tth" THEN call.diffraction_data.on_tth[1]
                 ELSE converted_axis(call.diffraction_data.on_tth[1], call.xtype,
                                     call.diffraction_data.wavelength)

(***************************************************************************)
(* Claims about Gridded_circle and the path lengths, checked under Spec    *)
(***************************************************************************)
\* C6: after set_muls_at_angle(a), whatever calls came before, muls[i] is
\* exp(-mu * total path length of grid point i at angle a)
C6_MulsAreForTheAnglePassed ==
    last.op = "set_muls_at_angle"
        => gc.muls = store_muls(set_distances_at_angle(gc, last.angle)).muls

\* the n evenly spaced coordinates on [-r, r], end points included (the one
\* coordinate for n = 1 is the starting end)
LatticeCoordinates(r, n) ==
    IF n = 1 THEN {<<-r, 1>>}
    ELSE {<<2 * r * k - r * (n - 1), n - 1>> : k \in 0..(n - 1)}

InClosedDisk(c, r) ==
    c[1][1] * c[1][1] + c[2][1] * c[2][1] <= (r * c[1][2]) * (r * c[1][2])

LatticeInDisk(r, n) ==
    {c \in LatticeCoordinates(r, n) \X LatticeCoordinates(r, n) : InClosedDisk(c, r)}

GridPoints == {gc.grid[i] : i \in 1..Len(gc.grid)}

\* C7: the grid is exactly the set of points of the n x n lattice on
\* [-r, r] x [-r, r] with x^2 + y^2 <= r^2, each once, and
\* total_points_in_grid counts them
C7_GridIsLatticeInClosedDisk ==
    Constructed => /\ GridPoints = LatticeInDisk(gc.radius, gc.npoints)
                   /\ Len(gc.grid) = Cardinality(LatticeInDisk(gc.radius, gc.npoints))
                   /\ gc.total_points_in_grid
                          = Cardinality(LatticeInDisk(gc.radius, gc.npoints))

C7_Witness ==
    /\ Constructed
    /\ gc.npoints = 5
    /\ gc.radius = 2
    /\ << <<0, 4>>, <<8, 4>> >> \in GridPoints
    /\ << <<4, 4>>, <<4, 4>> >> \in GridPoints
    /\ gc.total_points_in_grid = 13

\* C8: for every odd n >= 1, n = 1 included, the grid contains the centre (0, 0)
C8_CentreForEveryOddN ==
    (Constructed /\ gc.npoints % 2 = 1)
        => \E i \in 1..Len(gc.grid) : gc.grid[i][1][1] = 0 /\ gc.grid[i][2][1] = 0

Mirrored(q) == <<-q[1], q[2]>>

\* C9: a point is in the grid if and only if its mirror images under
\* (x, y) -> (-x, y) and (x, y) -> (x, -y) are
C9_GridIsMirrorSymmetric ==
    Constructed => \A c \in GridPoints : /\ <<Mirrored(c[1]), c[2]>> \in GridPoints
                                         /\ <<c[1], Mirrored(c[2])>> \in GridPoints

C9_Witness ==
    /\ Constructed
    /\ gc.npoints = 4
    /\ << <<1, 3>>, <<-1, 3>> >> \in GridPoints
    /\ << <<-1, 3>>, <<-1, 3>> >> \in GridPoints
    /\ << <<1, 3>>, <<1, 3>> >> \in GridPoints

\* d is the distance between p and q, to the resolution of the arithmetic
IsDistance(d, p, q) ==
    /\ d >= 0
    /\ d * d <= (p[1] - q[1]) * (p[1] - q[1]) + (p[2] - q[2]) * (p[2] - q[2])
    /\ (p[1] - q[1]) * (p[1] - q[1]) + (p[2] - q[2]) * (p[2] - q[2]) < (d + 1) * (d + 1)

\* the entry point has the y of the grid point and the non-positive x on the circle
IsEntryPoint(entry, point, rf) ==
    /\ entry[2] = point[2]
    /\ entry[1] <= 0
    /\ entry[1] * entry[1] + entry[2] * entry[2] <= rf * rf
    /\ rf * rf < (1 - entry[1]) * (1 - entry[1]) + entry[2] * entry[2]

PathLengthsAreRight(point, rf, entry_exit, total, primary, secondary) ==
    /\ IsEntryPoint(entry_exit[1], point, rf)
    /\ IsDistance(primary, point, entry_exit[1])
    /\ IsDistance(secondary, point, entry_exit[2])
    /\ total = primary + secondary
    /\ total >= 0

\* C10: for every grid point and exit angle, get_path_length gives
\* primary = distance(point, entry), secondary = distance(point, exit) and
\* total = primary + secondary, all non-negative, the entry point having the y
\* of the grid point and the non-positive x on the boundary circle
C10_PathLengths ==
    last.op = "set_distances_at_angle"
        => /\ Len(gc.distances) = Len(gc.grid)
           /\ Len(gc.primary_distances) = Len(gc.grid)
           /\ Len(gc.secondary_distances) = Len(gc.grid)
           /\ \A i \in 1..Len(gc.grid) :
                 PathLengthsAreRight(
                     <<ToFix(gc.grid[i][1]), ToFix(gc.grid[i][2])>>,
                     gc.radius * SCALE,
                     get_entry_exit_coordinates(gc.grid[i], last.angle * MICRO, gc.radius),
                     gc.distances[i], gc.primary_distances[i], gc.secondary_distances[i])

C10_Witness ==
    /\ last.op = "set_distances_at_angle"
    /\ last.angle = 120
    /\ gc.npoints = 4
    /\ \A i \in 1..Len(gc.grid) : gc.primary_distances[i] > 0 /\ gc.secondary_distances[i] > 0
    /\ \E i \in 1..Len(gc.grid) : gc.primary_distances[i] > gc.secondary_distances[i]

\* the two points where the line y = a x + b meets the circle, <<x, y>> in 1/SCALE
Intersections(radius, a, b) ==
    LET roots == np_roots(SCALE + Mul(a, a), 2 * Mul(a, b),
                          Mul(b, b) - Mul(radius * SCALE, radius * SCALE))
    IN {<<(roots[k] + SCALE \div 2) \div SCALE, MulMix(a, roots[k]) + b>> : k \in 1..2}

\* the intersections of the exit line of the grid point with the circle
ExitCandidates(point, angle, radius) ==
    Intersections(radius, math_tan(angle * MICRO),
                  point[2] - Mul(point[1], math_tan(angle * MICRO)))

Highest(candidates) == {c \in candidates : \A d \in candidates : c[2] >= d[2]}

ExitIsHigherIntersection(point, candidates, secondary) ==
    \E c \in Highest(candidates) : c[2] >= point[2] /\ secondary = math_dist(point, c)

\* C11: away from 90 degrees the exit point of every grid point is an
\* intersection of the exit line with the circle that is not below the grid
\* point, and the higher of the two when both qualify, in either order of the
\* roots: the secondary distance is the distance to that intersection
C11_ExitIsTheHigherRoot ==
    (last.op = "set_distances_at_angle" /\ last.angle # 90)
        => \A i \in 1..Len(gc.grid) :
              ExitIsHigherIntersection(
                  <<ToFix(gc.grid[i][1]), ToFix(gc.grid[i][2])>>,
                  ExitCandidates(<<ToFix(gc.grid[i][1]), ToFix(gc.grid[i][2])>>,
                                 last.angle, gc.radius),
                  gc.secondary_distances[i])

(***************************************************************************)
(* Claims about apply_corr, checked under SpecCorr                         *)
(***************************************************************************)
AppliedCorr == pc = "done" /\ call.kind = "apply_corr"

\* C12: apply_corr(modo, abdo) returns a pattern on the grid of its inputs
\* whose intensity at each position is measured intensity times correction
\* value, with the name, scattering quantity, wavelength and metadata of the
\* measured pattern; both input objects are as they were before the call
C12_AppliedCorrection ==
    AppliedCorr =>
        /\ result.kind = "Diffraction_object"
        /\ result.on_tth[1] = call.modo.on_tth[1]
        /\ result.on_tth[1] = call.abdo.on_tth[1]
        /\ Len(result.on_tth[2]) = Len(call.modo.on_tth[1])
        /\ \A i \in 1..Len(result.on_tth[2]) :
              result.on_tth[2][i] = Mul(call.modo.on_tth[2][i], call.abdo.on_tth[2][i])
        /\ result.name = call.modo.name
        /\ result.scat_quantity = call.modo.scat_quantity
        /\ result.wavelength = call.modo.wavelength
        /\ result.metadata = call.modo.metadata
        /\ modo = call.modo
        /\ abdo = call.abdo

C12_Witness ==
    /\ AppliedCorr
    /\ call.modo.name = "test"
    /\ call.modo.on_tth[2] = <<2000, 2000, 2000>>
    /\ call.abdo.on_tth[2] = <<500, 500, 500>>
    /\ result.on_tth[2] = <<1000, 1000, 1000>>
    /\ result.name # call.abdo.name

(***************************************************************************)
(* Further claims about compute_cve, checked under SpecCve                 *)
(***************************************************************************)
\* the sums over all grid points of the path lengths and of the attenuations
\* at one angle, computed afresh on the grid of circle
SumsAtAngle(circle, angle) ==
    LET sample == store_muls(set_distances_at_angle(circle, angle))
    IN <<SumSeq(sample.distances), SumSeq(sample.muls)>>

\* the two averages are the two sums divided by total_points_in_grid
AreMeansOf(mean_distance, mean_mul, sums, total_points_in_grid) ==
    /\ mean_distance = sums[1] \div total_points_in_grid
    /\ mean_mul = sums[2] \div total_points_in_grid

\* C13: the loop of compute_cve visits the angles 1, 2, ..., 140 once each in
\* increasing order and yields one averaged distance and one averaged
\* attenuation per angle, 140 of each, each the sum over all grid points at
\* that angle divided by total_points_in_grid
C13_OneAveragePerAngle ==
    /\ Len(TTH_GRID) = 140
    /\ \A k \in 1..Len(TTH_GRID) : TTH_GRID[k] = k
    /\ pc = "loop" =>
          /\ Len(distances) = idx
          /\ Len(muls) = idx
          /\ idx > 0 =>
                /\ last.angle = TTH_GRID[idx]
                /\ distances[idx] = SumSeq(gc.distances)
                /\ muls[idx] = SumSeq(gc.muls)
    /\ Returned =>
          /\ idx = 140
          /\ Len(distances) = 140
          /\ Len(muls) = 140
          /\ \A k \in 1..140 :
                AreMeansOf(distances[k], muls[k], SumsAtAngle(gc, k),
                           gc.total_points_in_grid)

C13_Witness ==
    /\ Returned
    /\ Len(distances) = 140
    /\ gc.total_points_in_grid > 1
    /\ distances[1] # distances[140]
    /\ muls[1] # muls[140]

\* C14: for a measured pattern whose two-theta grid is the internal grid, the
\* returned correction values are the values 1 / mean attenuation computed at
\* each angle, unchanged
C14_NodesKeepTheirValues ==
    (Returned /\ call.diffraction_data.on_tth[1] = InternalGridPattern.on_tth[1])
        => /\ Len(result.on_tth[2]) = Len(TTH_GRID)
           /\ \A k \in 1..Len(TTH_GRID) :
                 /\ muls[k] > 0
                 /\ result.on_tth[2][k] = (FINE * SCALE) \div muls[k]

C14_Witness ==
    /\ Returned
    /\ call.diffraction_data.on_tth[1] = InternalGridPattern.on_tth[1]
    /\ result.on_tth[2][1] # result.on_tth[2][140]
    /\ result.on_tth[2][70] # result.on_tth[2][71]
    /\ result.on_tth[2][70] > SCALE

\* 1 / mean attenuation at every angle of TTH_GRID, computed afresh on circle
cve_on(circle) ==
    [k \in 1..Len(TTH_GRID) |->
        Reciprocal(SumsAtAngle(circle, TTH_GRID[k])[2] \div circle.total_points_in_grid)]

\* the correction curve of a call that runs alone: a function of mud only
cve_alone(mud) ==
    cve_on(Gridded_circle(RADIUS_MM, N_POINTS_ON_DIAMETER, mu_sample_invmm(mud)))

\* what compute_cve(diffraction_data, mud, wavelength) returns when it runs alone
result_alone(orig_grid, mud, wavelength) ==
    Diffraction_object(wavelength, orig_grid,
                       np_interp(orig_grid, [i \in 1..Len(TTH_GRID) |-> TTH_GRID[i] * SCALE],
                                 cve_alone(mud)),
                       "tth")

MeanOf(values, n) == SumSeq(values) \div n

\* exp(-mu d) is above the resolution 1 / FINE of the attenuations (mu d <= 12)
Resolved(mu, d) == Mul(mu, d) <= 12 * SCALE

\* the attenuations of the object are in (0, 1], and those for the larger mu
\* are not above them, below them where the path has a length; an attenuation
\* below the resolution is carried as 0
AttenuationsFallWith(circle, larger) ==
    /\ \A i \in 1..Len(circle.muls) :
          /\ 0 <= circle.muls[i] /\ circle.muls[i] <= FINE
          /\ Resolved(circle.mu, circle.distances[i]) => 0 < circle.muls[i]
          /\ 0 <= larger.muls[i] /\ larger.muls[i] <= circle.muls[i]
          /\ Resolved(larger.mu, larger.distances[i]) => 0 < larger.muls[i]
          /\ (circle.distances[i] > 0 /\ circle.muls[i] > 0)
                 => larger.muls[i] < circle.muls[i]
    /\ MeanOf(larger.muls, Len(larger.muls)) <= MeanOf(circle.muls, Len(circle.muls))
    /\ Reciprocal(MeanOf(circle.muls, Len(circle.muls))) >= SCALE
    /\ Reciprocal(MeanOf(larger.muls, Len(larger.muls)))
           >= Reciprocal(MeanOf(circle.muls, Len(circle.muls)))

\* C15: on a fixed grid at a fixed angle every attenuation exp(-mu d) is in
\* (0, 1] and does not rise with mu (falls when d > 0); the mean transmission
\* does not rise with mu, and the correction 1 / mean is >= 1 and does not fall
C15_AttenuationMonotoneInMu ==
    (last.op = "set_muls_at_angle" /\ Len(gc.grid) > 0)
        => \A mu \in MuValues :
              mu > gc.mu => AttenuationsFallWith(gc, store_muls([gc EXCEPT !.mu = mu]))

C15_Witness ==
    /\ last.op = "set_muls_at_angle"
    /\ gc.mu = SCALE \div 2
    /\ gc.total_points_in_grid = 13
    /\ \E i \in 1..Len(gc.muls) : gc.muls[i] = FINE
    /\ \E i \in 1..Len(gc.muls) : gc.muls[i] < FINE \div 2

\* C16: once the object is constructed, no call changes grid,
\* total_points_in_grid, radius, npoints or mu
C16_GridIsBuiltOnce ==
    [][Constructed => /\ gc'.grid = gc.grid
                      /\ gc'.total_points_in_grid = gc.total_points_in_grid
                      /\ gc'.radius = gc.radius
                      /\ gc'.npoints = gc.npoints
                      /\ gc'.mu = gc.mu]_vars

C16_Witness ==
    /\ last.op = "set_muls_at_angle"
    /\ last.angle = 90
    /\ gc.npoints = 5
    /\ gc.total_points_in_grid = 13
    /\ Len(gc.muls) = 13

\* the primary distance of a grid point: from the point back to the circle
\* along its horizontal line
PrimaryOf(point, rf) == point[1] + math_sqrt_diff(rf, point[2])

\* C17: once set_distances_at_angle has run, distances, primary_distances and
\* secondary_distances have total_points_in_grid entries each, in grid order,
\* with distances[i] = primary_distances[i] + secondary_distances[i]; after
\* set_muls_at_angle muls has total_points_in_grid entries; a later call
\* replaces the lists
C17_ListsMatchTheGrid ==
    (last.op = "set_distances_at_angle" \/ last.op = "set_muls_at_angle")
        => /\ Len(gc.distances) = gc.total_points_in_grid
           /\ Len(gc.primary_distances) = gc.total_points_in_grid
           /\ Len(gc.secondary_distances) = gc.total_points_in_grid
           /\ gc.total_points_in_grid = Len(gc.grid)
           /\ \A i \in 1..Len(gc.distances) :
                 /\ gc.distances[i] = gc.primary_distances[i] + gc.secondary_distances[i]
                 /\ gc.primary_distances[i]
                        = PrimaryOf(<<ToFix(gc.grid[i][1]), ToFix(gc.grid[i][2])>>,
                                    gc.radius * SCALE)
           /\ Len(gc.muls) \in {0, gc.total_points_in_grid}
           /\ last.op = "set_muls_at_angle" => Len(gc.muls) = gc.total_points_in_grid

C17_Witness ==
    /\ last.op = "set_distances_at_angle"
    /\ gc.total_points_in_grid = 13
    /\ Len(gc.muls) = 13
    /\ Len(gc.distances) = 13
    /\ \E i \in 1..13 : gc.primary_distances[i] # gc.primary_distances[1]

====
